---- MODULE Spec2Model ----
(***************************************************************************)
(* Request classification and response encoding of the access resources    *)
(* (backend/src/access/models.rs): AccessRequest::from_rouille,             *)
(* UserAccessRequest::from_rouille, AccessResponse::to_rouille and          *)
(* UserAccessResponse::to_rouille.                                          *)
(*                                                                         *)
(* Text (a url, a raw query string, a path segment) is a sequence of        *)
(* one-character strings, so that matching, splitting and integer parsing   *)
(* are computed as the code computes them.  An i64 is an integer; the       *)
(* integers written in the requests either stay far below 2^31 in          *)
(* magnitude or overflow 64 bits, and the overflow test compares decimal   *)
(* magnitudes.  A url is the path request.url() returns and holds neither  *)
(* '?' nor '%'.                                                            *)
(***************************************************************************)
EXTENDS Integers, Sequences, FiniteSets, TLC

VARIABLES
    composed,   \* what the client put in the request: path segments, query entries
    request,    \* the rouille::Request being handled (method, url, raw query, body)
    called,     \* the request as it was when the last from_rouille call began
    resource,   \* whose function ran last: "access" | "user_access" | "none"
    result,     \* what the last from_rouille call returned, or NoResult
    outcome,    \* the response value last handed to an encoder, or NoOutcome
    response,   \* the rouille::Response the encoder built, or NoResponse
    history     \* log of completed calls (only written under SpecHistory)

vars == <<composed, request, called, resource, result, outcome, response, history>>

(***************************************************************************)
(* Bounds of the model.                                                    *)
(***************************************************************************)
MaxSegments == 2        \* path segments of a generated url
MaxQueryEntries == 2    \* '&'-separated entries of a generated query string
MaxUsers == 1           \* users in a ManyUsers outcome
MaxHistory == 3         \* calls kept in the history log

(***************************************************************************)
(* Text helpers.                                                           *)
(***************************************************************************)
Digits == {"0", "1", "2", "3", "4", "5", "6", "7", "8", "9"}

DigitValue(c) ==
    CASE c = "0" -> 0 [] c = "1" -> 1 [] c = "2" -> 2 [] c = "3" -> 3
      [] c = "4" -> 4 [] c = "5" -> 5 [] c = "6" -> 6 [] c = "7" -> 7
      [] c = "8" -> 8 [] c = "9" -> 9

DigitChar(d) ==
    CASE d = 0 -> "0" [] d = 1 -> "1" [] d = 2 -> "2" [] d = 3 -> "3"
      [] d = 4 -> "4" [] d = 5 -> "5" [] d = 6 -> "6" [] d = 7 -> "7"
      [] d = 8 -> "8" [] d = 9 -> "9"

\* 0-based position of the first c in s, or Len(s) when there is none
\* (str::find(c).unwrap_or(len)).
FindOr(s, c) ==
    IF \E i \in 1..Len(s) : s[i] = c
    THEN (CHOOSE i \in 1..Len(s) : s[i] = c /\ \A j \in 1..(i - 1) : s[j] # c) - 1
    ELSE Len(s)

RECURSIVE StripLeadingZeros(_)
StripLeadingZeros(s) ==
    IF Len(s) > 1 /\ Head(s) = "0" THEN StripLeadingZeros(Tail(s)) ELSE s

\* a > b for two digit texts of equal length
RECURSIVE DigitsGreater(_, _)
DigitsGreater(a, b) ==
    IF a = <<>> THEN FALSE
    ELSE IF DigitValue(Head(a)) # DigitValue(Head(b))
         THEN DigitValue(Head(a)) > DigitValue(Head(b))
         ELSE DigitsGreater(Tail(a), Tail(b))

MagnitudeExceeds(mag, limit) ==
    \/ Len(mag) > Len(limit)
    \/ Len(mag) = Len(limit) /\ DigitsGreater(mag, limit)

I64MaxDigits ==
    <<"9","2","2","3","3","7","2","0","3","6","8","5","4","7","7","5","8","0","7">>
I64MinDigits ==
    <<"9","2","2","3","3","7","2","0","3","6","8","5","4","7","7","5","8","0","8">>

RECURSIVE DigitsValue(_, _)
DigitsValue(s, acc) ==
    IF s = <<>> THEN acc ELSE DigitsValue(Tail(s), acc * 10 + DigitValue(Head(s)))

ParseError == [ok |-> FALSE, value |-> 0]

\* <i64 as FromStr>::from_str, which the router's {id: i64} patterns call:
\* an optional sign, then one or more decimal digits, within 64 bits.
ParseI64(s) ==
    LET signed == s # <<>> /\ Head(s) \in {"+", "-"}
        neg == s # <<>> /\ Head(s) = "-"
        body == IF signed THEN Tail(s) ELSE s
        mag == StripLeadingZeros(body)
    IN  IF body = <<>> \/ \E i \in 1..Len(body) : body[i] \notin Digits
        THEN ParseError
        ELSE IF MagnitudeExceeds(mag, IF neg THEN I64MinDigits ELSE I64MaxDigits)
        THEN ParseError
        ELSE [ok |-> TRUE,
              value |-> IF neg THEN 0 - DigitsValue(mag, 0) ELSE DigitsValue(mag, 0)]

(***************************************************************************)
(* rouille's router! patterns, as the macro expands them on request.url(). *)
(***************************************************************************)
NoMatch == [matched |-> FALSE, value |-> 0, rest |-> <<>>]

\* the same step with a segment that holds no integer passed over instead
\* of ending the match
CheckIdSegment_Lenient(url) ==
    IF url = <<>> \/ Head(url) # "/"
    THEN NoMatch
    ELSE LET u == Tail(url)
             pat_end == FindOr(u, "/")
             p == ParseI64(SubSeq(u, 1, pat_end))
         IN  [matched |-> TRUE, value |-> p.value, rest |-> SubSeq(u, pat_end + 1, Len(u))]

\* one  /{p: i64}  step: the text up to the next '/' must parse as an i64
CheckIdSegment(url) ==
    IF url = <<>> \/ Head(url) # "/"
    THEN NoMatch
    ELSE LET u == Tail(url)
             pat_end == FindOr(u, "/")
             p == ParseI64(SubSeq(u, 1, pat_end))
         IN  IF p.ok
             THEN [matched |-> TRUE, value |-> p.value,
                   rest |-> SubSeq(u, pat_end + 1, Len(u))]
             ELSE NoMatch

\* pattern (/)
MatchRoot(url) == url = <<"/">>

\* pattern (/{id: i64})
MatchId(url) ==
    LET a == CheckIdSegment(url)
    IN  IF a.matched /\ a.rest = <<>>
        THEN [matched |-> TRUE, id |-> a.value]
        ELSE [matched |-> FALSE, id |-> 0]

\* the two-id pattern with its bindings exchanged
MatchUserAccess_Swapped(url) ==
    LET a == CheckIdSegment(url)
        b == IF a.matched THEN CheckIdSegment(a.rest) ELSE NoMatch
    IN  IF a.matched /\ b.matched /\ b.rest = <<>>
        THEN [matched |-> TRUE, user_id |-> b.value, access_id |-> a.value]
        ELSE [matched |-> FALSE, user_id |-> 0, access_id |-> 0]

\* pattern (/{user_id: i64}/{access_id: i64})
MatchUserAccess(url) ==
    LET a == CheckIdSegment(url)
        b == IF a.matched THEN CheckIdSegment(a.rest) ELSE NoMatch
    IN  IF a.matched /\ b.matched /\ b.rest = <<>>
        THEN [matched |-> TRUE, user_id |-> a.value, access_id |-> b.value]
        ELSE [matched |-> FALSE, user_id |-> 0, access_id |-> 0]

(***************************************************************************)
(* Results of a classification.                                            *)
(***************************************************************************)
Ok(op) == [tag |-> "Ok", op |-> op]
Err(kind) == [tag |-> "Err", kind |-> kind]     \* WebdevError::new(kind)

\* a from_rouille call: what it returned, and the request body it left behind
Returned(ret, data) == [ret |-> ret, data |-> data]

(***************************************************************************)
(* Request bodies.  request.data() hands the body out once: a request      *)
(* whose body was taken holds None.  A body that is present is either text *)
(* that is not JSON or a JSON object, a list of members key: value.        *)
(***************************************************************************)
None == [kind |-> "none", members |-> <<>>]
Garbage == [kind |-> "garbage", members |-> <<>>]
Object(members) == [kind |-> "object", members |-> members]

JStr(s) == [t |-> "str", s |-> s, n |-> 0]
JNum(n) == [t |-> "num", s |-> "", n |-> n]
JNull == [t |-> "null", s |-> "", n |-> 0]
Member(k, v) == [key |-> k, val |-> v]

NoString == [some |-> FALSE, s |-> ""]          \* Option<String>::None
SomeString(s) == [some |-> TRUE, s |-> s]       \* Option<String>::Some(s)
NoOption == [some |-> FALSE, inner |-> NoString]    \* Option<Option<String>>::None
SomeOption(o) == [some |-> TRUE, inner |-> o]

Occurrences(members, key) == {i \in DOMAIN members : members[i].key = key}
TheMember(members, key) == members[CHOOSE i \in Occurrences(members, key) : TRUE].val

\* a required field of a derived Deserialize: exactly one member of that
\* name, holding a value of the field's type (members of other names are
\* skipped, a repeated or missing field is an error)
HasField(members, key, type) ==
    /\ Cardinality(Occurrences(members, key)) = 1
    /\ TheMember(members, key).t = type

\* an Option field: absent, or present once holding null or the type
HasOptionalField(members, key, type) ==
    \/ Occurrences(members, key) = {}
    \/ /\ Cardinality(Occurrences(members, key)) = 1
       /\ TheMember(members, key).t \in {type, "null"}

OptionalString(members, key) ==
    IF Occurrences(members, key) = {} \/ TheMember(members, key).t = "null"
    THEN NoString
    ELSE SomeString(TheMember(members, key).s)

DeserializeError == [ok |-> FALSE]
Deserialized(v) == [ok |-> TRUE, value |-> v]

\* serde_json::from_reader::<NewAccess> and ::<PartialAccess> (same fields)
Deserialize_Access(doc) ==
    IF doc.kind = "object" /\ HasField(doc.members, "access_name", "str")
    THEN Deserialized([access_name |-> TheMember(doc.members, "access_name").s])
    ELSE DeserializeError

\* serde_json::from_reader::<NewUserAccess>
Deserialize_NewUserAccess(doc) ==
    IF /\ doc.kind = "object"
       /\ HasField(doc.members, "access_id", "num")
       /\ HasField(doc.members, "user_id", "num")
       /\ HasOptionalField(doc.members, "permission_level", "str")
    THEN Deserialized([access_id |-> TheMember(doc.members, "access_id").n,
                       user_id |-> TheMember(doc.members, "user_id").n,
                       permission_level |->
                           OptionalString(doc.members, "permission_level")])
    ELSE DeserializeError

\* serde_json::from_reader::<PartialUserAccess>: permission_level is an
\* Option<Option<String>>, which a derived Deserialize fills with None for
\* an absent member and for null, and with Some(Some(s)) for a string
Deserialize_PartialUserAccess(doc) ==
    IF /\ doc.kind = "object"
       /\ HasField(doc.members, "access_id", "num")
       /\ HasField(doc.members, "user_id", "num")
       /\ HasOptionalField(doc.members, "permission_level", "str")
    THEN Deserialized([access_id |-> TheMember(doc.members, "access_id").n,
                       user_id |-> TheMember(doc.members, "user_id").n,
                       permission_level |->
                           IF OptionalString(doc.members, "permission_level").some
                           THEN SomeOption(OptionalString(doc.members, "permission_level"))
                           ELSE NoOption])
    ELSE DeserializeError

\* impl From<serde_json::Error> for WebdevError (crate::errors), which the
\* ? after from_reader applies
SerdeErrorKind == "Format"

(***************************************************************************)
(* AccessRequest::from_rouille                                             *)
(***************************************************************************)
GetAccess(id) == [variant |-> "GetAccess", id |-> id]
CreateAccess(payload) == [variant |-> "CreateAccess", payload |-> payload]
UpdateAccess(id, payload) == [variant |-> "UpdateAccess", id |-> id, payload |-> payload]
DeleteAccess(id) == [variant |-> "DeleteAccess", id |-> id]

\* (POST) (/) arm
Access_Create(data) ==
    IF data = None
    THEN Returned(Err("Format"), None)
    ELSE LET new_access == Deserialize_Access(data)
         IN  IF new_access.ok
             THEN Returned(Ok(CreateAccess(new_access.value)), None)
             ELSE Returned(Err(SerdeErrorKind), None)

\* (POST) (/{id: i64}) arm
Access_Update(id, data) ==
    IF data = None
    THEN Returned(Err("Format"), None)
    ELSE LET update_access == Deserialize_Access(data)
         IN  IF update_access.ok
             THEN Returned(Ok(UpdateAccess(id, update_access.value)), None)
             ELSE Returned(Err(SerdeErrorKind), None)

\* AccessRequest::from_rouille with the DELETE arm building the GET arm's
\* operation
AccessRequest_from_rouille_DeleteAsGet(req) ==
    LET one == MatchId(req.url)
    IN  IF req.method = "GET" /\ one.matched
        THEN Returned(Ok(GetAccess(one.id)), req.data)
        ELSE IF req.method = "POST" /\ MatchRoot(req.url)
        THEN Access_Create(req.data)
        ELSE IF req.method = "POST" /\ one.matched
        THEN Access_Update(one.id, req.data)
        ELSE IF req.method = "DELETE" /\ one.matched
        THEN Returned(Ok(GetAccess(one.id)), req.data)
        ELSE Returned(Err("NotFound"), req.data)

AccessRequest_from_rouille(req) ==
    LET one == MatchId(req.url)
    IN  IF req.method = "GET" /\ one.matched
        THEN Returned(Ok(GetAccess(one.id)), req.data)
        ELSE IF req.method = "POST" /\ MatchRoot(req.url)
        THEN Access_Create(req.data)
        ELSE IF req.method = "POST" /\ one.matched
        THEN Access_Update(one.id, req.data)
        ELSE IF req.method = "DELETE" /\ one.matched
        THEN Returned(Ok(DeleteAccess(one.id)), req.data)
        ELSE Returned(Err("NotFound"), req.data)

(***************************************************************************)
(* The query string: url::form_urlencoded::parse on raw_query_string().    *)
(* Entries are separated by '&' (empty entries are skipped), a name ends   *)
(* at the first '=', and '+' decodes to a space.  The generated texts hold *)
(* no '%', so percent-decoding has nothing to do.                          *)
(***************************************************************************)
RECURSIVE SplitOn(_, _)
SplitOn(s, c) ==
    LET k == FindOr(s, c)
    IN  IF k = Len(s)
        THEN <<s>>
        ELSE <<SubSeq(s, 1, k)>> \o SplitOn(SubSeq(s, k + 2, Len(s)), c)

PlusToSpace(s) == [i \in 1..Len(s) |-> IF s[i] = "+" THEN " " ELSE s[i]]

QueryPair(piece) ==
    LET k == FindOr(piece, "=")
    IN  [name |-> PlusToSpace(SubSeq(piece, 1, k)),
         value |-> PlusToSpace(SubSeq(piece, k + 2, Len(piece)))]

RECURSIVE QueryPairs(_)
QueryPairs(pieces) ==
    IF pieces = <<>> THEN <<>>
    ELSE IF Head(pieces) = <<>> THEN QueryPairs(Tail(pieces))
    ELSE <<QueryPair(Head(pieces))>> \o QueryPairs(Tail(pieces))

form_urlencoded_parse(raw) == QueryPairs(SplitOn(raw, "&"))

(***************************************************************************)
(* The predicate parsers of crate::search.  Their grammar is outside this  *)
(* file; what is modelled is their contract: a value that is well formed   *)
(* for the column type gives a filter on that value (or, for a nullable    *)
(* column, the require-null filter for the sentinel), never NoSearch, and  *)
(* any other value is a Format error.                                      *)
(***************************************************************************)
NoSearch == [kind |-> "NoSearch"]
Match(v) == [kind |-> "Match", value |-> v]
RequireNull == [kind |-> "RequireNull"]

NullSentinel == <<"n", "u", "l", "l">>

Parsed(search) == [ok |-> TRUE, search |-> search]
QueryError == [ok |-> FALSE, kind |-> "Format"]

\* Search::<i64>::from_query
Search_from_query(query) ==
    IF ParseI64(query).ok THEN Parsed(Match(ParseI64(query).value)) ELSE QueryError

\* NullableSearch::<String>::from_query
NullableSearch_from_query(query) ==
    IF query = NullSentinel THEN Parsed(RequireNull) ELSE Parsed(Match(query))

(***************************************************************************)
(* UserAccessRequest::from_rouille                                         *)
(***************************************************************************)
K_access_id == <<"a","c","c","e","s","s","_","i","d">>
K_user_id == <<"u","s","e","r","_","i","d">>
K_permission_level ==
    <<"p","e","r","m","i","s","s","i","o","n","_","l","e","v","e","l">>

SearchAccess(search) == [variant |-> "SearchAccess", search |-> search]
CheckAccess(user_id, access_id) ==
    [variant |-> "CheckAccess", user_id |-> user_id, access_id |-> access_id]

\* the three `let mut ... = NoSearch` of the (GET) (/) arm
SearchUserAccess_default ==
    [access_id |-> NoSearch, user_id |-> NoSearch, permission_level |-> NoSearch]

\* the loop with the `_ =>` arm skipping the entry instead of returning
RECURSIVE SearchLoop_IgnoreUnknown(_, _)
SearchLoop_IgnoreUnknown(url_queries, search) ==
    IF url_queries = <<>>
    THEN Ok([variant |-> "SearchAccess", search |-> search])
    ELSE LET field == Head(url_queries).name
             query == Head(url_queries).value
         IN  IF field = K_access_id
             THEN IF Search_from_query(query).ok
                  THEN SearchLoop_IgnoreUnknown(Tail(url_queries),
                         [search EXCEPT !.access_id = Search_from_query(query).search])
                  ELSE Err(Search_from_query(query).kind)
             ELSE IF field = K_user_id
             THEN IF Search_from_query(query).ok
                  THEN SearchLoop_IgnoreUnknown(Tail(url_queries),
                         [search EXCEPT !.user_id = Search_from_query(query).search])
                  ELSE Err(Search_from_query(query).kind)
             ELSE IF field = K_permission_level
             THEN IF NullableSearch_from_query(query).ok
                  THEN SearchLoop_IgnoreUnknown(Tail(url_queries),
                         [search EXCEPT !.permission_level =
                                            NullableSearch_from_query(query).search])
                  ELSE Err(NullableSearch_from_query(query).kind)
             ELSE SearchLoop_IgnoreUnknown(Tail(url_queries), search)

\* the loop with the "user_id" arm assigning to access_id
RECURSIVE SearchLoop_CrossColumn(_, _)
SearchLoop_CrossColumn(url_queries, search) ==
    IF url_queries = <<>>
    THEN Ok([variant |-> "SearchAccess", search |-> search])
    ELSE LET field == Head(url_queries).name
             query == Head(url_queries).value
         IN  IF field \in {K_access_id, K_user_id}
             THEN IF Search_from_query(query).ok
                  THEN SearchLoop_CrossColumn(Tail(url_queries),
                         [search EXCEPT !.access_id = Search_from_query(query).search])
                  ELSE Err(Search_from_query(query).kind)
             ELSE IF field = K_permission_level
             THEN IF NullableSearch_from_query(query).ok
                  THEN SearchLoop_CrossColumn(Tail(url_queries),
                         [search EXCEPT !.permission_level =
                                            NullableSearch_from_query(query).search])
                  ELSE Err(NullableSearch_from_query(query).kind)
             ELSE Err("Format")

\* the loop keeping the first predicate of a column: a later entry of the
\* same key is parsed but not assigned
RECURSIVE SearchLoop_FirstWins(_, _)
SearchLoop_FirstWins(url_queries, search) ==
    IF url_queries = <<>>
    THEN Ok([variant |-> "SearchAccess", search |-> search])
    ELSE LET field == Head(url_queries).name
             query == Head(url_queries).value
             keep(column, parsed) ==
                 IF search[column].kind = "NoSearch"
                 THEN [search EXCEPT ![column] = parsed] ELSE search
         IN  IF field = K_access_id
             THEN IF Search_from_query(query).ok
                  THEN SearchLoop_FirstWins(Tail(url_queries),
                         keep("access_id", Search_from_query(query).search))
                  ELSE Err(Search_from_query(query).kind)
             ELSE IF field = K_user_id
             THEN IF Search_from_query(query).ok
                  THEN SearchLoop_FirstWins(Tail(url_queries),
                         keep("user_id", Search_from_query(query).search))
                  ELSE Err(Search_from_query(query).kind)
             ELSE IF field = K_permission_level
             THEN IF NullableSearch_from_query(query).ok
                  THEN SearchLoop_FirstWins(Tail(url_queries),
                         keep("permission_level", NullableSearch_from_query(query).search))
                  ELSE Err(NullableSearch_from_query(query).kind)
             ELSE Err("Format")

\* the `for (field, query) in url_queries` loop of the (GET) (/) arm
RECURSIVE SearchLoop(_, _)
SearchLoop(url_queries, search) ==
    IF url_queries = <<>>
    THEN Ok(SearchAccess(search))
    ELSE LET field == Head(url_queries).name
             query == Head(url_queries).value
         IN  IF field = K_access_id
             THEN IF Search_from_query(query).ok
                  THEN SearchLoop(Tail(url_queries),
                         [search EXCEPT !.access_id = Search_from_query(query).search])
                  ELSE Err(Search_from_query(query).kind)
             ELSE IF field = K_user_id
             THEN IF Search_from_query(query).ok
                  THEN SearchLoop(Tail(url_queries),
                         [search EXCEPT !.user_id = Search_from_query(query).search])
                  ELSE Err(Search_from_query(query).kind)
             ELSE IF field = K_permission_level
             THEN IF NullableSearch_from_query(query).ok
                  THEN SearchLoop(Tail(url_queries),
                         [search EXCEPT !.permission_level =
                                            NullableSearch_from_query(query).search])
                  ELSE Err(NullableSearch_from_query(query).kind)
             ELSE Err("Format")

\* (POST) (/) arm
UserAccess_Create(data) ==
    IF data = None
    THEN Returned(Err("Format"), None)
    ELSE LET new_user_access == Deserialize_NewUserAccess(data)
         IN  IF new_user_access.ok
             THEN Returned(Ok(CreateAccess(new_user_access.value)), None)
             ELSE Returned(Err(SerdeErrorKind), None)

\* the arm with a missing body reported as NotFound
UserAccess_Update_NoBodyNotFound(id, data) ==
    IF data = None
    THEN Returned(Err("NotFound"), None)
    ELSE LET update_user_access == Deserialize_PartialUserAccess(data)
         IN  IF update_user_access.ok
             THEN Returned(Ok(UpdateAccess(id, update_user_access.value)), None)
             ELSE Returned(Err(SerdeErrorKind), None)

\* (POST) (/{id: i64}) arm
UserAccess_Update(id, data) ==
    IF data = None
    THEN Returned(Err("Format"), None)
    ELSE LET update_user_access == Deserialize_PartialUserAccess(data)
         IN  IF update_user_access.ok
             THEN Returned(Ok(UpdateAccess(id, update_user_access.value)), None)
             ELSE Returned(Err(SerdeErrorKind), None)

\* UserAccessRequest::from_rouille checking the query string before routing
UserAccessRequest_from_rouille_QueryFirst(req) ==
    LET url_queries == form_urlencoded_parse(req.query)
        one == MatchId(req.url)
        two == MatchUserAccess(req.url)
        search == SearchLoop(url_queries, SearchUserAccess_default)
    IN  IF search.tag = "Err"
        THEN Returned(search, req.data)
        ELSE IF req.method = "GET" /\ MatchRoot(req.url)
        THEN Returned(search, req.data)
        ELSE IF req.method = "GET" /\ two.matched
        THEN Returned(Ok(CheckAccess(two.user_id, two.access_id)), req.data)
        ELSE IF req.method = "POST" /\ MatchRoot(req.url)
        THEN UserAccess_Create(req.data)
        ELSE IF req.method = "POST" /\ one.matched
        THEN UserAccess_Update(one.id, req.data)
        ELSE IF req.method = "DELETE" /\ one.matched
        THEN Returned(Ok(DeleteAccess(one.id)), req.data)
        ELSE Returned(Err("NotFound"), req.data)

\* UserAccessRequest::from_rouille carrying a failure over: when the call
\* before it failed, it returns that failure again
UserAccessRequest_from_rouille_Sticky(req) ==
    LET url_queries == form_urlencoded_parse(req.query)
        one == MatchId(req.url)
        two == MatchUserAccess(req.url)
    IN  IF result.tag = "Err"
        THEN Returned(result, req.data)
        ELSE IF req.method = "GET" /\ MatchRoot(req.url)
        THEN Returned(SearchLoop(url_queries, SearchUserAccess_default), req.data)
        ELSE IF req.method = "GET" /\ two.matched
        THEN Returned(Ok(CheckAccess(two.user_id, two.access_id)), req.data)
        ELSE IF req.method = "POST" /\ MatchRoot(req.url)
        THEN UserAccess_Create(req.data)
        ELSE IF req.method = "POST" /\ one.matched
        THEN UserAccess_Update(one.id, req.data)
        ELSE IF req.method = "DELETE" /\ one.matched
        THEN Returned(Ok(DeleteAccess(one.id)), req.data)
        ELSE Returned(Err("NotFound"), req.data)

UserAccessRequest_from_rouille(req) ==
    LET url_queries == form_urlencoded_parse(req.query)
        one == MatchId(req.url)
        two == MatchUserAccess(req.url)
    IN  IF req.method = "GET" /\ MatchRoot(req.url)
        THEN Returned(SearchLoop(url_queries, SearchUserAccess_default), req.data)
        ELSE IF req.method = "GET" /\ two.matched
        THEN Returned(Ok(CheckAccess(two.user_id, two.access_id)), req.data)
        ELSE IF req.method = "POST" /\ MatchRoot(req.url)
        THEN UserAccess_Create(req.data)
        ELSE IF req.method = "POST" /\ one.matched
        THEN UserAccess_Update(one.id, req.data)
        ELSE IF req.method = "DELETE" /\ one.matched
        THEN Returned(Ok(DeleteAccess(one.id)), req.data)
        ELSE Returned(Err("NotFound"), req.data)

(***************************************************************************)
(* Response encoders.  A response is its status code, its content type and *)
(* its body; a JSON body is the token sequence serde_json writes.          *)
(***************************************************************************)
RECURSIVE NaturalDigits(_)
NaturalDigits(n) ==
    IF n < 10 THEN <<DigitChar(n)>> ELSE NaturalDigits(n \div 10) \o <<DigitChar(n % 10)>>

\* an i64 in decimal, as Display and serde_json write it
Decimal(n) == IF n < 0 THEN <<"-">> \o NaturalDigits(0 - n) ELSE NaturalDigits(n)

Response_json(tokens) ==
    [status_code |-> 200, content_type |-> "application/json", data |-> tokens]
Response_text(text) ==
    [status_code |-> 200, content_type |-> "text/plain; charset=utf8", data |-> text]
Response_empty_204 == [status_code |-> 204, content_type |-> "", data |-> <<>>]

OneAccess(access) == [variant |-> "OneAccess", access |-> access]
NoResponse == [variant |-> "NoResponse"]
ManyUsers(users) == [variant |-> "ManyUsers", users |-> users]
AccessState(state) == [variant |-> "AccessState", state |-> state]
OneUserAccess(user_access) == [variant |-> "OneUserAccess", user_access |-> user_access]

JsonString(s) == <<"\"", s, "\"">>

\* #[derive(Serialize)] of Access
Serialize_Access(access) ==
    <<"{", "\"id\"", ":">> \o Decimal(access.id)
        \o <<",", "\"access_name\"", ":">> \o JsonString(access.access_name) \o <<"}">>

\* #[derive(Serialize)] of UserAccess
Serialize_UserAccess(ua) ==
    <<"{", "\"permission_id\"", ":">> \o Decimal(ua.permission_id)
        \o <<",", "\"access_id\"", ":">> \o Decimal(ua.access_id)
        \o <<",", "\"user_id\"", ":">> \o Decimal(ua.user_id)
        \o <<",", "\"permission_level\"", ":">>
        \o (IF ua.permission_level.some
            THEN JsonString(ua.permission_level.s) ELSE <<"null">>)
        \o <<"}">>

\* Serialize of crate::users::models::UserList: the users in order
RECURSIVE Serialize_Users(_)
Serialize_Users(users) ==
    IF users = <<>> THEN <<>>
    ELSE IF Len(users) = 1 THEN Decimal(Head(users))
    ELSE Decimal(Head(users)) \o <<",">> \o Serialize_Users(Tail(users))

Serialize_UserList(users) == <<"[">> \o Serialize_Users(users) \o <<"]">>

AccessResponse_to_rouille(self) ==
    CASE self.variant = "OneAccess" -> Response_json(Serialize_Access(self.access))
      [] self.variant = "NoResponse" -> Response_empty_204

\* the encoder answering NoResponse with an empty 200 text response
UserAccessResponse_to_rouille_EmptyText(self) ==
    CASE self.variant = "ManyUsers" -> Response_json(Serialize_UserList(self.users))
      [] self.variant = "AccessState" ->
            Response_text(IF self.state THEN <<"t","r","u","e">>
                                        ELSE <<"f","a","l","s","e">>)
      [] self.variant = "OneUserAccess" ->
            Response_json(Serialize_UserAccess(self.user_access))
      [] self.variant = "NoResponse" -> Response_text(<<>>)

UserAccessResponse_to_rouille(self) ==
    CASE self.variant = "ManyUsers" -> Response_json(Serialize_UserList(self.users))
      [] self.variant = "AccessState" ->
            Response_text(IF self.state THEN <<"t","r","u","e">>
                                        ELSE <<"f","a","l","s","e">>)
      [] self.variant = "OneUserAccess" ->
            Response_json(Serialize_UserAccess(self.user_access))
      [] self.variant = "NoResponse" -> Response_empty_204

(***************************************************************************)
(* The requests that arrive and the outcomes that are encoded.             *)
(***************************************************************************)
BoundedSeqs(S, n) == UNION {[1..k -> S] : k \in 0..n}

RECURSIVE JoinPrefixed(_, _)
JoinPrefixed(parts, sep) ==
    IF parts = <<>> THEN <<>>
    ELSE <<sep>> \o Head(parts) \o JoinPrefixed(Tail(parts), sep)

Root == <<"/">>

\* the url whose path has the given segments
Url(segments) == IF segments = <<>> THEN Root ELSE JoinPrefixed(segments, "/")

\* the query string with the given entries
Query(entries) == IF entries = <<>> THEN <<>> ELSE Tail(JoinPrefixed(entries, "&"))

SegmentPool ==
    { <<"7">>, <<"3">>, <<"-", "1">>, <<"0", "0", "7">>, <<"a", "b", "c">>, <<>>,
      I64MinDigits }

E_access_5 == K_access_id \o <<"=", "5">>
E_access_9 == K_access_id \o <<"=", "9">>
E_access_x == K_access_id \o <<"=", "x">>
E_user_7 == K_user_id \o <<"=", "7">>
E_level_rw == K_permission_level \o <<"=", "r", "+", "w">>
E_level_null == K_permission_level \o <<"=">> \o NullSentinel
E_bogus == <<"b", "o", "g", "u", "s", "=", "1">>

EntryPool ==
    { E_access_5, E_access_9, E_access_x, E_user_7, E_level_rw, E_level_null,
      E_bogus, <<>> }

Methods == {"GET", "POST", "DELETE", "PUT"}

\* the paths a client composes; the path of one empty segment is left out,
\* its url being the root url
Paths == BoundedSeqs(SegmentPool, MaxSegments) \ {<<(<<>>)>>}
EntryLists == BoundedSeqs(EntryPool, MaxQueryEntries)
\* the query strings tried on every path; the root path gets all of EntryLists
ProbeEntryLists == {<<>>, <<E_bogus>>, <<E_access_x>>}

MakeRequest(method, segments, entries, data) ==
    [method |-> method, url |-> Url(segments), query |-> Query(entries), data |-> data]

B_admin == Object(<<Member("access_name", JStr("admin"))>>)
B_admin_extra ==
    Object(<<Member("extra", JNum(1)), Member("access_name", JStr("admin"))>>)
B_admin_twice ==
    Object(<<Member("access_name", JStr("admin")), Member("access_name", JStr("read"))>>)
B_name_number == Object(<<Member("access_name", JNum(5))>>)
B_empty_object == Object(<<>>)
B_grant == Object(<<Member("access_id", JNum(5)), Member("user_id", JNum(7))>>)
B_grant_rw ==
    Object(<<Member("access_id", JNum(5)), Member("user_id", JNum(7)),
             Member("permission_level", JStr("rw"))>>)
B_grant_null ==
    Object(<<Member("access_id", JNum(5)), Member("user_id", JNum(7)),
             Member("permission_level", JNull)>>)
B_grant_text_id == Object(<<Member("access_id", JStr("5")), Member("user_id", JNum(7))>>)

Bodies ==
    { None, Garbage, B_admin, B_admin_extra, B_admin_twice, B_name_number, B_empty_object,
      B_grant, B_grant_rw, B_grant_null, B_grant_text_id }

Ids == {7, 3, -1}
Names == {"admin", "read"}
Levels == {NoString, SomeString("rw")}

AccessOutcomes ==
    {OneAccess([id |-> i, access_name |-> n]) : i \in Ids, n \in Names} \cup {NoResponse}

UserAccessOutcomes ==
    {ManyUsers(us) : us \in BoundedSeqs(Ids, MaxUsers)}
        \cup {AccessState(b) : b \in BOOLEAN}
        \cup {OneUserAccess([permission_id |-> p, access_id |-> a, user_id |-> u,
                             permission_level |-> l]) :
                  p \in {3}, a \in {7}, u \in Ids, l \in Levels}
        \cup {NoResponse}

(***************************************************************************)
(* The state machine: a request arrives, a classifier is run on it (which  *)
(* may take its body), and an encoder turns an outcome into the response   *)
(* that ends the handling of the request.                                  *)
(***************************************************************************)
NotComposed == [segments |-> <<>>, entries |-> <<>>]
NoRequest == [method |-> "", url |-> <<>>, query |-> <<>>, data |-> None]
NoResult == [tag |-> "None"]
NoOutcome == [variant |-> "None"]
Unsent == [status_code |-> 0, content_type |-> "", data |-> <<>>]

Init ==
    /\ composed = NotComposed
    /\ request = NoRequest
    /\ called = NoRequest
    /\ resource = "none"
    /\ result = NoResult
    /\ outcome = NoOutcome
    /\ response = Unsent
    /\ history = <<>>

\* the transport hands over the next request when the handler is idle
Idle == request = NoRequest /\ response = Unsent

\* a request arrives with its body in place, or with the body already taken
\* by whoever held the request before
Arrive(method, segments, entries, data) ==
    /\ composed' = [segments |-> segments, entries |-> entries]
    /\ request' = MakeRequest(method, segments, entries, data)
    /\ called' = NoRequest
    /\ resource' = "none"
    /\ result' = NoResult
    /\ outcome' = NoOutcome
    /\ response' = Unsent

RunAccessFromRouille ==
    /\ request # NoRequest
    /\ LET call == AccessRequest_from_rouille(request)
       IN  /\ request' = [request EXCEPT !.data = call.data]
           /\ result' = call.ret
    /\ called' = request
    /\ resource' = "access"
    /\ UNCHANGED <<composed, outcome, response>>

RunUserAccessFromRouille ==
    /\ request # NoRequest
    /\ LET call == UserAccessRequest_from_rouille(request)
       IN  /\ request' = [request EXCEPT !.data = call.data]
           /\ result' = call.ret
    /\ called' = request
    /\ resource' = "user_access"
    /\ UNCHANGED <<composed, outcome, response>>

\* the persistence collaborator has produced an outcome; no request is left
\* to classify when it is encoded
RunAccessToRouille(o) ==
    /\ outcome' = o
    /\ response' = AccessResponse_to_rouille(o)
    /\ resource' = "access"
    /\ composed' = NotComposed
    /\ request' = NoRequest
    /\ called' = NoRequest
    /\ result' = NoResult

RunUserAccessToRouille(o) ==
    /\ outcome' = o
    /\ response' = UserAccessResponse_to_rouille(o)
    /\ resource' = "user_access"
    /\ composed' = NotComposed
    /\ request' = NoRequest
    /\ called' = NoRequest
    /\ result' = NoResult

\* the handler returns: the operation, the error or the response leaves this
\* layer, and nothing of the request is kept
RunFinish ==
    /\ result # NoResult \/ response # Unsent
    /\ composed' = NotComposed
    /\ request' = NoRequest
    /\ called' = NoRequest
    /\ resource' = "none"
    /\ result' = NoResult
    /\ outcome' = NoOutcome
    /\ response' = Unsent

Receive ==
    /\ Idle
    /\ \E m \in Methods, d \in Bodies :
          \/ \E p \in Paths, q \in ProbeEntryLists : Arrive(m, p, q, d)
          \/ \E q \in EntryLists : Arrive(m, <<>>, q, d)
    /\ UNCHANGED history
AccessFromRouille == RunAccessFromRouille /\ UNCHANGED history
UserAccessFromRouille == RunUserAccessFromRouille /\ UNCHANGED history
AccessToRouille ==
    request = NoRequest /\ \E o \in AccessOutcomes : RunAccessToRouille(o) /\ UNCHANGED history
UserAccessToRouille ==
    request = NoRequest /\ \E o \in UserAccessOutcomes : RunUserAccessToRouille(o) /\ UNCHANGED history

Finish == RunFinish /\ UNCHANGED history

Next ==
    \/ Receive
    \/ AccessFromRouille
    \/ UserAccessFromRouille
    \/ AccessToRouille
    \/ UserAccessToRouille
    \/ Finish

Spec == Init /\ [][Next]_vars

(***************************************************************************)
(* The same handler with every call logged: the input each from_rouille or *)
(* to_rouille call was given and what it returned.  The log is capped, and *)
(* the requests and outcomes come from a small sample so that the same     *)
(* input recurs after other calls.                                         *)
(***************************************************************************)
SampleRequests ==
    { [method |-> "POST", segments |-> <<>>, entries |-> <<>>, data |-> B_admin],
      [method |-> "POST", segments |-> <<(<<"7">>)>>, entries |-> <<E_bogus>>,
       data |-> B_grant],
      [method |-> "GET", segments |-> <<>>, entries |-> <<E_access_5>>, data |-> Garbage],
      [method |-> "GET", segments |-> <<(<<"7">>), (<<"3">>)>>, entries |-> <<E_bogus>>,
       data |-> None] }

SampleAccessOutcomes == {OneAccess([id |-> 7, access_name |-> "admin"]), NoResponse}
SampleUserAccessOutcomes == {AccessState(TRUE), NoResponse}

Logged(call, input, output) ==
    /\ Len(history) < MaxHistory
    /\ history' = Append(history, [call |-> call, input |-> input, output |-> output])

ReceiveLogged ==
    /\ Idle
    /\ \E r \in SampleRequests : Arrive(r.method, r.segments, r.entries, r.data)
    /\ UNCHANGED history
AccessFromRouilleLogged ==
    RunAccessFromRouille /\ Logged("AccessRequest::from_rouille", request, result')
UserAccessFromRouilleLogged ==
    RunUserAccessFromRouille /\ Logged("UserAccessRequest::from_rouille", request, result')
AccessToRouilleLogged ==
    request = NoRequest /\ \E o \in SampleAccessOutcomes :
        RunAccessToRouille(o) /\ Logged("AccessResponse::to_rouille", o, response')
UserAccessToRouilleLogged ==
    request = NoRequest /\ \E o \in SampleUserAccessOutcomes :
        RunUserAccessToRouille(o) /\ Logged("UserAccessResponse::to_rouille", o, response')
FinishLogged == RunFinish /\ UNCHANGED history

NextHistory ==
    \/ ReceiveLogged
    \/ AccessFromRouilleLogged
    \/ UserAccessFromRouilleLogged
    \/ AccessToRouilleLogged
    \/ UserAccessToRouilleLogged
    \/ FinishLogged

SpecHistory == Init /\ [][NextHistory]_vars

(***************************************************************************)
(* Reference values for the properties below: the integer each id-shaped   *)
(* segment of SegmentPool denotes, the payloads the bodies of Bodies       *)
(* carry, and the rows of the two routing tables.                          *)
(***************************************************************************)
PathIds ==
    { [text |-> <<"7">>, id |-> 7], [text |-> <<"3">>, id |-> 3],
      [text |-> <<"-", "1">>, id |-> 0 - 1], [text |-> <<"0", "0", "7">>, id |-> 7] }

IdSegments == {p.text : p \in PathIds}

AccessPayloads ==
    { [doc |-> B_admin, payload |-> [access_name |-> "admin"]],
      [doc |-> B_admin_extra, payload |-> [access_name |-> "admin"]] }

NewUserAccessPayloads ==
    { [doc |-> B_grant,
       payload |-> [access_id |-> 5, user_id |-> 7, permission_level |-> NoString]],
      [doc |-> B_grant_null,
       payload |-> [access_id |-> 5, user_id |-> 7, permission_level |-> NoString]],
      [doc |-> B_grant_rw,
       payload |-> [access_id |-> 5, user_id |-> 7,
                    permission_level |-> SomeString("rw")]] }

PartialUserAccessPayloads ==
    { [doc |-> B_grant,
       payload |-> [access_id |-> 5, user_id |-> 7, permission_level |-> NoOption]],
      [doc |-> B_grant_null,
       payload |-> [access_id |-> 5, user_id |-> 7, permission_level |-> NoOption]],
      [doc |-> B_grant_rw,
       payload |-> [access_id |-> 5, user_id |-> 7,
                    permission_level |-> SomeOption(SomeString("rw"))]] }

\* a from_rouille call of the given resource has returned
Classified(res) == resource = res /\ result # NoResult

OneId(segments) == Len(segments) = 1 /\ segments[1] \in IdSegments
TwoIds(segments) ==
    Len(segments) = 2 /\ segments[1] \in IdSegments /\ segments[2] \in IdSegments

\* the rows of the AccessLevel table
AccessRoute(method, segments) ==
    \/ method \in {"GET", "POST", "DELETE"} /\ OneId(segments)
    \/ method = "POST" /\ segments = <<>>

\* the rows of the UserAccessGrant table
UserAccessRoute(method, segments) ==
    \/ method \in {"GET", "POST"} /\ segments = <<>>
    \/ method = "GET" /\ TwoIds(segments)
    \/ method \in {"POST", "DELETE"} /\ OneId(segments)

GoodEntries == {E_access_5, E_access_9, E_user_7, E_level_rw, E_level_null, <<>>}

(***************************************************************************)
(* C1: AccessRequest::from_rouille follows the AccessLevel table: for an   *)
(* id segment denoting n, GET /n gives GetAccess(n), DELETE /n gives       *)
(* DeleteAccess(n), POST /n with a well-formed body gives UpdateAccess(n,  *)
(* payload of that body), and POST / with a well-formed body gives         *)
(* CreateAccess(payload of that body).                                     *)
(***************************************************************************)
C1_AccessRouting ==
    Classified("access") =>
        /\ \A p \in PathIds :
              composed.segments = <<p.text>> =>
                  /\ called.method = "GET" => result = Ok(GetAccess(p.id))
                  /\ called.method = "DELETE" => result = Ok(DeleteAccess(p.id))
                  /\ \A b \in AccessPayloads :
                        called.method = "POST" /\ called.data = b.doc =>
                            result = Ok(UpdateAccess(p.id, b.payload))
        /\ \A b \in AccessPayloads :
              composed.segments = <<>> /\ called.method = "POST" /\ called.data = b.doc =>
                  result = Ok(CreateAccess(b.payload))

C1_Witness ==
    /\ Classified("access")
    /\ called.method = "DELETE"
    /\ composed.segments = <<(<<"0", "0", "7">>)>>
    /\ result = Ok(DeleteAccess(7))

(***************************************************************************)
(* C2: UserAccessRequest::from_rouille follows the UserAccessGrant table:  *)
(* GET /a/b gives CheckAccess(user_id = a, access_id = b), GET / with only *)
(* well-formed entries of recognized keys gives a SearchAccess, POST /     *)
(* with a well-formed body gives CreateAccess, POST /n with a well-formed  *)
(* body gives UpdateAccess(n, ...), and DELETE /n gives DeleteAccess(n).   *)
(***************************************************************************)
C2_UserAccessRouting ==
    Classified("user_access") =>
        /\ \A a \in PathIds, b \in PathIds :
              called.method = "GET" /\ composed.segments = <<a.text, b.text>> =>
                  result = Ok(CheckAccess(a.id, b.id))
        /\ called.method = "GET" /\ composed.segments = <<>>
              /\ (\A i \in DOMAIN composed.entries : composed.entries[i] \in GoodEntries)
              => result.tag = "Ok" /\ result.op.variant = "SearchAccess"
        /\ \A b \in NewUserAccessPayloads :
              called.method = "POST" /\ composed.segments = <<>> /\ called.data = b.doc =>
                  result = Ok(CreateAccess(b.payload))
        /\ \A p \in PathIds :
              composed.segments = <<p.text>> =>
                  /\ called.method = "DELETE" => result = Ok(DeleteAccess(p.id))
                  /\ \A b \in PartialUserAccessPayloads :
                        called.method = "POST" /\ called.data = b.doc =>
                            result = Ok(UpdateAccess(p.id, b.payload))

C2_Witness ==
    /\ Classified("user_access")
    /\ called.method = "GET"
    /\ composed.segments = <<(<<"7">>), (<<"3">>)>>
    /\ result = Ok(CheckAccess(7, 3))

(***************************************************************************)
(* C3: on both resources a request whose method and path match no row of   *)
(* the table is rejected with NotFound, whatever its body.                 *)
(***************************************************************************)
C3_UnmatchedIsNotFound ==
    /\ Classified("access") /\ ~AccessRoute(called.method, composed.segments)
          => result = Err("NotFound")
    /\ Classified("user_access") /\ ~UserAccessRoute(called.method, composed.segments)
          => result = Err("NotFound")

C3_Witness ==
    /\ Classified("user_access")
    /\ called.method = "POST"
    /\ composed.segments = <<I64MinDigits>>
    /\ called.data = None
    /\ result = Err("NotFound")

\* the GET / call of UserAccessRequest::from_rouille has returned
Searched == Classified("user_access") /\ called.method = "GET" /\ composed.segments = <<>>

AllEntriesGood == \A i \in DOMAIN composed.entries : composed.entries[i] \in GoodEntries

(***************************************************************************)
(* C4: GET / on UserAccessGrant gives a SearchAccess exactly when every    *)
(* entry of the query string has a recognized key and a well-formed value; *)
(* with an unrecognized key or a malformed value anywhere in the query     *)
(* string it fails with Format.                                            *)
(***************************************************************************)
C4_SearchAllOrNothing ==
    Searched =>
        IF AllEntriesGood
        THEN result.tag = "Ok" /\ result.op.variant = "SearchAccess"
        ELSE result = Err("Format")

C4_Witness ==
    /\ Searched
    /\ composed.entries = <<E_access_5, E_bogus>>
    /\ result = Err("Format")

(***************************************************************************)
(* C5: on POST / and POST /{id} of both resources a request without a body *)
(* and a request whose body is not JSON of the expected payload (not JSON, *)
(* a field of the wrong type, a required field missing) fail with Format.  *)
(***************************************************************************)
MalformedAccessBodies == {Garbage, B_name_number, B_empty_object, B_grant}
MalformedUserAccessBodies == {Garbage, B_empty_object, B_admin, B_grant_text_id}

BodyRoute == called.method = "POST" /\ (composed.segments = <<>> \/ OneId(composed.segments))

C5_BadBodyIsFormat ==
    /\ Classified("access") /\ BodyRoute
          /\ called.data \in {None} \cup MalformedAccessBodies
          => result = Err("Format")
    /\ Classified("user_access") /\ BodyRoute
          /\ called.data \in {None} \cup MalformedUserAccessBodies
          => result = Err("Format")

\* the body was taken by an earlier call on the same request
C5_Witness ==
    /\ Classified("user_access")
    /\ called.method = "POST"
    /\ composed.segments = <<(<<"7">>)>>
    /\ called.data = None
    /\ result = Err("Format")

(***************************************************************************)
(* C6: the encoders map every outcome: an entity or a collection to 200    *)
(* with a JSON body, AccessState(b) to 200 with the text true or false, and *)
(* NoResponse to 204 with an empty body; no outcome gets another status.   *)
(***************************************************************************)
C6_Encoding ==
    response # Unsent =>
        /\ response.status_code \in {200, 204}
        /\ outcome.variant \in {"OneAccess", "OneUserAccess", "ManyUsers"} =>
              /\ response.status_code = 200
              /\ response.content_type = "application/json"
              /\ response.data # <<>>
        /\ outcome = OneAccess([id |-> 0 - 1, access_name |-> "admin"]) =>
              response.data = <<"{", "\"id\"", ":", "-", "1", ",", "\"access_name\"", ":",
                                "\"", "admin", "\"", "}">>
        /\ outcome.variant = "AccessState" =>
              /\ response.status_code = 200
              /\ outcome.state => response.data = <<"t", "r", "u", "e">>
              /\ ~outcome.state => response.data = <<"f", "a", "l", "s", "e">>
        /\ outcome.variant = "NoResponse" =>
              response.status_code = 204 /\ response.data = <<>>

C6_Witness ==
    /\ resource = "user_access"
    /\ outcome = NoResponse
    /\ response.status_code = 204

(***************************************************************************)
(* C7: in a SearchAccess each column whose key is not in the query string  *)
(* carries NoSearch, and each column whose key is there carries a          *)
(* predicate parsed from a value given for that very key.                  *)
(***************************************************************************)
\* the predicate each well-formed entry of the pool asks for
Meaning(entry) ==
    CASE entry = E_access_5 -> Match(5)
      [] entry = E_access_9 -> Match(9)
      [] entry = E_user_7 -> Match(7)
      [] entry = E_level_rw -> Match(<<"r", " ", "w">>)
      [] entry = E_level_null -> RequireNull

Columns == {"access_id", "user_id", "permission_level"}

ColumnEntries(column) ==
    CASE column = "access_id" -> {E_access_5, E_access_9}
      [] column = "user_id" -> {E_user_7}
      [] column = "permission_level" -> {E_level_rw, E_level_null}

\* the entries the client gave for a column
Given(column) ==
    {e \in ColumnEntries(column) : \E i \in DOMAIN composed.entries : composed.entries[i] = e}

C7_SearchColumnsIndependent ==
    Searched /\ result.tag = "Ok" =>
        \A c \in Columns :
            IF Given(c) = {}
            THEN result.op.search[c] = NoSearch
            ELSE \E e \in Given(c) : result.op.search[c] = Meaning(e)

C7_Witness ==
    /\ Searched
    /\ composed.entries = <<E_user_7, E_level_rw>>
    /\ result = Ok(SearchAccess([access_id |-> NoSearch, user_id |-> Match(7),
                                 permission_level |-> Match(<<"r", " ", "w">>)]))

AccessIdEntries == {E_access_5, E_access_9, E_access_x}

AccessIdPositions == {i \in DOMAIN composed.entries : composed.entries[i] \in AccessIdEntries}

LastAccessId ==
    composed.entries[CHOOSE i \in AccessIdPositions : \A j \in AccessIdPositions : j <= i]

C9_LastOccurrenceWins ==
    Searched /\ Cardinality(AccessIdPositions) >= 2 =>
        /\ result.tag = "Ok" =>
              result.op.search.access_id = Meaning(LastAccessId)
        /\ (\E i \in AccessIdPositions : composed.entries[i] = E_access_x)
              => result = Err("Format")

C9_Witness ==
    /\ Searched
    /\ composed.entries = <<E_access_5, E_access_9>>
    /\ result.tag = "Ok"
    /\ result.op.search.access_id = Match(9)

(***************************************************************************)
(* C10: outside GET / on UserAccessGrant the query string has no influence: *)
(* the call returns what it returns for the same request with an empty      *)
(* query string.                                                            *)
(***************************************************************************)
C10_QueryOnlyMattersForSearch ==
    /\ Classified("access") =>
          result = AccessRequest_from_rouille([called EXCEPT !.query = <<>>]).ret
    /\ Classified("user_access") /\ ~Searched =>
          result = UserAccessRequest_from_rouille([called EXCEPT !.query = <<>>]).ret

C10_Witness ==
    /\ Classified("user_access")
    /\ called.method = "GET"
    /\ composed = [segments |-> <<(<<"7">>), (<<"3">>)>>, entries |-> <<E_bogus>>]
    /\ result = Ok(CheckAccess(7, 3))

====
